---- MODULE Spec2Model ----
(***************************************************************************)
(* A model of OOPexam2.py: Card (suit, rank, equality, ordering, hash,     *)
(* display name), Deck (a mutable list of cards with shuffle, draw,        *)
(* add_card, indexing, max, min and a copying `cards` property) and the    *)
(* fair_deck decorator that raises DeckCheatingError on a duplicate card.  *)
(*                                                                         *)
(* Python lists are objects that can be aliased, so lists live in `heap`   *)
(* and are referred to by their id: list 0 is Deck._cards, lists 1..       *)
(* NumCopies are the lists that Deck.cards hands to the caller.            *)
(***************************************************************************)
EXTENDS Integers, Sequences, FiniteSets, TLC

VARIABLES
    heap,     \* heap[id]: contents of list object id; heap[0] is self._cards
    ref,      \* ref[k]: list id held by the caller's k-th variable, -1 if unset
    hand,     \* cards the caller has drawn and not given back, oldest first
    op,       \* name of the last operation executed
    arg,      \* integer argument of the last operation (index, slot, seed, ...)
    argCard,  \* card argument of the last operation: <<card>>, or <<>> if none
    ret,      \* value returned by the last operation: [type, val]
    err,      \* exception raised by the last operation: [type, msg]
    steps,    \* number of mutating operations executed so far
    cmpIn,    \* operands of the last card comparison (<<>> if none)
    cmpOut    \* results of the last card comparison

vars == <<heap, ref, hand, op, arg, argCard, ret, err, steps, cmpIn, cmpOut>>

---------------------------------------------------------------------------
(* Bounds of the exploration.                                              *)

\* random streams 0..MaxSeed are fed to random.shuffle
MaxSeed == 1
\* at most MaxSteps mutating operations (draw, add_card, shuffle, copy edits)
MaxSteps == 3
\* the caller keeps at most NumCopies lists obtained from Deck.cards
NumCopies == 2
\* the caller has already drawn 0 cards, or all but at most MaxLeft cards
MaxLeft == 1

---------------------------------------------------------------------------
(* Card.CardSuit and Card.CardRank                                         *)

SPADES == 1
HEARTS == 2
DIAMONDS == 3
CLUBS == 4

TWO == 2
THREE == 3
FOUR == 4
FIVE == 5
SIX == 6
SEVEN == 7
EIGHT == 8
NINE == 9
TEN == 10
JACK == 11
QUEEN == 12
KING == 13
ACE == 14

\* iteration over an Enum yields its members in definition order
CardSuit == <<SPADES, HEARTS, DIAMONDS, CLUBS>>

CardRank == <<TWO, THREE, FOUR, FIVE, SIX, SEVEN, EIGHT, NINE, TEN, JACK, QUEEN, KING, ACE>>

\* Enum member .name, by value
SuitName(s) ==
    CASE s = SPADES -> "SPADES" [] s = HEARTS -> "HEARTS"
      [] s = DIAMONDS -> "DIAMONDS" [] s = CLUBS -> "CLUBS"

RankName(r) ==
    CASE r = TWO -> "TWO" [] r = THREE -> "THREE" [] r = FOUR -> "FOUR"
      [] r = FIVE -> "FIVE" [] r = SIX -> "SIX" [] r = SEVEN -> "SEVEN"
      [] r = EIGHT -> "EIGHT" [] r = NINE -> "NINE" [] r = TEN -> "TEN"
      [] r = JACK -> "JACK" [] r = QUEEN -> "QUEEN" [] r = KING -> "KING"
      [] r = ACE -> "ACE"

\* str.title() on the member names: first letter upper case, rest lower case
Title(name) ==
    CASE name = "SPADES" -> "Spades" [] name = "HEARTS" -> "Hearts"
      [] name = "DIAMONDS" -> "Diamonds" [] name = "CLUBS" -> "Clubs"
      [] name = "TWO" -> "Two" [] name = "THREE" -> "Three"
      [] name = "FOUR" -> "Four" [] name = "FIVE" -> "Five"
      [] name = "SIX" -> "Six" [] name = "SEVEN" -> "Seven"
      [] name = "EIGHT" -> "Eight" [] name = "NINE" -> "Nine"
      [] name = "TEN" -> "Ten" [] name = "JACK" -> "Jack"
      [] name = "QUEEN" -> "Queen" [] name = "KING" -> "King"
      [] name = "ACE" -> "Ace"

---------------------------------------------------------------------------
(* Card                                                                    *)

Card(suit, rank) == [suit |-> suit, rank |-> rank]

get_display_name(c) == Title(RankName(c.rank)) \o " of " \o Title(SuitName(c.suit))

Card_eq(a, b) == a.rank = b.rank /\ a.suit = b.suit

Card_lt(a, b) ==
    IF a.rank # b.rank THEN a.rank < b.rank ELSE a.suit < b.suit

\* faulty variant of __gt__: it breaks a tie of ranks the wrong way round
Card_gt_tieflip(a, b) ==
    IF a.rank # b.rank THEN a.rank > b.rank ELSE a.suit < b.suit

Card_gt(a, b) ==
    IF a.rank # b.rank THEN a.rank > b.rank ELSE a.suit > b.suit

\* hash((suit, rank)): the tuple stands for its hash value
Card_hash(c) == <<c.suit, c.rank>>

\* the 52 cards a caller can build from the two enumerations
AllCards == {Card(CardSuit[i], CardRank[j]) : i \in 1..Len(CardSuit), j \in 1..Len(CardRank)}

---------------------------------------------------------------------------
(* Values returned and exceptions raised by the operations                 *)

NoneVal == [type |-> "NoneType", val |-> <<>>]

CardVal(c) == [type |-> "Card", val |-> <<c>>]

ListVal(x) == [type |-> "list", val |-> x]

DeckVal(x) == [type |-> "Deck", val |-> x]

\* nothing is returned when the operation raises
NoReturn == [type |-> "raise", val |-> <<>>]

NoError == [type |-> "", msg |-> ""]

IndexError == [type |-> "IndexError", msg |-> "list index out of range"]

DeckCheatingError(card) ==
    [type |-> "DeckCheatingError",
     msg |-> "Cheating detected: duplicate card " \o get_display_name(card)]

---------------------------------------------------------------------------
(* Python list primitives, on 0-based positions                            *)

\* x[i] for an in-range, non-negative i
At(x, i) == x[i + 1]

\* the list x with positions i and j exchanged: x[i], x[j] = x[j], x[i]
Swap(x, i, j) == [x EXCEPT ![i + 1] = x[j + 1], ![j + 1] = x[i + 1]]

\* the list x without its element at position i: what list.pop(i) leaves
RemoveAt(x, i) == SubSeq(x, 1, i) \o SubSeq(x, i + 2, Len(x))

---------------------------------------------------------------------------
(* Deck                                                                    *)

\* the inner loop of the comprehension: for rank in Card.CardRank
RECURSIVE RanksOf(_, _)
RanksOf(suit, j) ==
    IF j > Len(CardRank) THEN <<>>
    ELSE <<Card(suit, CardRank[j])>> \o RanksOf(suit, j + 1)

\* the outer loop of the comprehension: for suit in Card.CardSuit
RECURSIVE SuitsFrom(_)
SuitsFrom(i) ==
    IF i > Len(CardSuit) THEN <<>>
    ELSE RanksOf(CardSuit[i], 1) \o SuitsFrom(i + 1)

\* faulty variant of the comprehension: it has the two loops exchanged
RECURSIVE RankMajorFrom(_)
RankMajorFrom(j) ==
    IF j > Len(CardRank) THEN <<>>
    ELSE <<Card(CardSuit[1], CardRank[j]), Card(CardSuit[2], CardRank[j]),
           Card(CardSuit[3], CardRank[j]), Card(CardSuit[4], CardRank[j])>> \o RankMajorFrom(j + 1)

generate_rank_major == RankMajorFrom(1)

generate_full_deck == SuitsFrom(1)

\* The random source of random.shuffle: a stream of numbers, one stream per
\* seed, produced by a linear congruential generator.
RandInit(seed) == (seed * 7919 + 17) % 65537

RandNext(state) == (state * 75 + 74) % 65537

\* random.shuffle(x): for i in reversed(range(1, len(x))):
\*                        j = randbelow(i + 1); x[i], x[j] = x[j], x[i]
\* `done` counts the iterations made, so that i = len(x) - 1 - done
RECURSIVE ShuffleFrom(_, _, _)
ShuffleFrom(x, done, state) ==
    LET i == Len(x) - 1 - done
        nxt == RandNext(state)
        j == nxt % (i + 1)
    IN IF i < 1 THEN x ELSE ShuffleFrom(Swap(x, i, j), done + 1, nxt)

\* faulty variant of shuffle: it assigns x[i] = x[j] without completing the exchange
RECURSIVE LossyShuffleFrom(_, _, _)
LossyShuffleFrom(x, done, state) ==
    LET i == Len(x) - 1 - done
        nxt == RandNext(state)
        j == nxt % (i + 1)
    IN IF i < 1 THEN x
       ELSE LossyShuffleFrom([x EXCEPT ![i + 1] = x[j + 1]], done + 1, nxt)

shuffle_lossy(x, seed) == LossyShuffleFrom(x, 0, RandInit(seed))

shuffle(x, seed) == ShuffleFrom(x, 0, RandInit(seed))

\* Deck.__init__(shuffle): the list self._cards after construction
Deck(shuffleFlag, seed) ==
    IF shuffleFlag THEN shuffle(generate_full_deck, seed) ELSE generate_full_deck

\* faulty variant of draw: it pops the last card: self._cards.pop()
draw_last(x) ==
    IF Len(x) > 0
    THEN [cards |-> RemoveAt(x, Len(x) - 1), ret |-> CardVal(At(x, Len(x) - 1))]
    ELSE [cards |-> x, ret |-> NoneVal]

\* faulty variant of draw: it returns the front card without removing it: self._cards[0]
draw_keep(x) ==
    IF Len(x) > 0
    THEN [cards |-> x, ret |-> CardVal(At(x, 0))]
    ELSE [cards |-> x, ret |-> NoneVal]

\* Deck.draw: self._cards.pop(0) if self._cards else None
draw(x) ==
    IF Len(x) > 0
    THEN [cards |-> RemoveAt(x, 0), ret |-> CardVal(At(x, 0))]
    ELSE [cards |-> x, ret |-> NoneVal]

\* faulty variant of add_card: it refuses a card that the deck already holds
add_card_unique(x, card) ==
    IF \E k \in 1..Len(x) : Card_eq(x[k], card) THEN x ELSE Append(x, card)

\* Deck.add_card: self._cards.append(card)
add_card(x, card) == Append(x, card)

\* max(iterable, default=None): the first item that no later item exceeds;
\* an item replaces the running maximum only when item > maximum
RECURSIVE MaxFrom(_, _, _)
MaxFrom(x, k, best) ==
    IF k > Len(x) THEN best
    ELSE IF Card_gt(x[k], best) THEN MaxFrom(x, k + 1, x[k])
    ELSE MaxFrom(x, k + 1, best)

\* faulty variant of max: it compares with < and so keeps the least card
RECURSIVE LeastFrom(_, _, _)
LeastFrom(x, k, best) ==
    IF k > Len(x) THEN best
    ELSE IF Card_lt(x[k], best) THEN LeastFrom(x, k + 1, x[k])
    ELSE LeastFrom(x, k + 1, best)

Deck_max_least(x) == IF Len(x) = 0 THEN NoneVal ELSE CardVal(LeastFrom(x, 2, x[1]))

Deck_max(x) == IF Len(x) = 0 THEN NoneVal ELSE CardVal(MaxFrom(x, 2, x[1]))

\* min(iterable, default=None): an item replaces the running minimum only
\* when item < minimum
RECURSIVE MinFrom(_, _, _)
MinFrom(x, k, best) ==
    IF k > Len(x) THEN best
    ELSE IF Card_lt(x[k], best) THEN MinFrom(x, k + 1, x[k])
    ELSE MinFrom(x, k + 1, best)

Deck_min(x) == IF Len(x) = 0 THEN NoneVal ELSE CardVal(MinFrom(x, 2, x[1]))

\* faulty variant of indexing: it rejects negative indices
getitem_nonneg(x, index) ==
    IF index < 0 \/ index >= Len(x)
    THEN [ret |-> NoReturn, err |-> IndexError]
    ELSE [ret |-> CardVal(At(x, index)), err |-> NoError]

\* Deck.__getitem__: self._cards[index]; a list counts a negative index from
\* the end and raises IndexError outside -len..len-1
getitem(x, index) ==
    LET i == IF index < 0 THEN index + Len(x) ELSE index
    IN IF i < 0 \/ i >= Len(x)
       THEN [ret |-> NoReturn, err |-> IndexError]
       ELSE [ret |-> CardVal(At(x, i)), err |-> NoError]

\* faulty variant of the cards property: it hands out the internal list: return self._cards
cards_alias(h, slot) == [heap |-> h, id |-> 0]

\* Deck.cards: return self._cards.copy(); the copy is a new list object,
\* which takes the id of the caller's variable that receives it
cards(h, slot) == [heap |-> [h EXCEPT ![slot] = h[0]], id |-> slot]

---------------------------------------------------------------------------
(* fair_deck                                                               *)

\* card in seen: a set finds a member by its hash, then confirms with ==
InSeen(card, seen) ==
    \E s \in seen : Card_hash(s) = Card_hash(card) /\ Card_eq(s, card)

\* for card in result: if card in seen: raise ...; seen.add(card)
RECURSIVE ScanFrom(_, _, _)
ScanFrom(x, k, seen) ==
    IF k > Len(x) THEN NoError
    ELSE IF InSeen(x[k], seen) THEN DeckCheatingError(x[k])
    ELSE ScanFrom(x, k + 1, seen \cup {x[k]})

\* faulty variant of the scan: it compares each card with the card before it only
RECURSIVE ScanAdjacent(_, _)
ScanAdjacent(x, k) ==
    IF k > Len(x) THEN NoError
    ELSE IF k > 1 /\ Card_eq(x[k], x[k - 1]) THEN DeckCheatingError(x[k])
    ELSE ScanAdjacent(x, k + 1)

fair_deck_adjacent(result) ==
    LET e == IF result.type = "Deck" THEN ScanAdjacent(result.val, 1) ELSE NoError
    IN [ret |-> IF e = NoError THEN result ELSE NoReturn, err |-> e]

\* wrapper: result = func(...); the scan if isinstance(result, Deck); return result
fair_deck(result) ==
    LET e == IF result.type = "Deck" THEN ScanFrom(result.val, 1, {}) ELSE NoError
    IN [ret |-> IF e = NoError THEN result ELSE NoReturn, err |-> e]

---------------------------------------------------------------------------
(* The caller's inputs                                                     *)

Seeds == 0..MaxSeed

Slots == 1..NumCopies

\* two of the cards that main builds by hand: c1 (= c3) and c4
SampleCards == {Card(SPADES, ACE), Card(DIAMONDS, EIGHT)}

\* cards given to add_card: a hand-built card, or the card drawn last
AddInputs == SampleCards \cup (IF Len(hand) > 0 THEN {hand[Len(hand)]} ELSE {})

\* cards given back in disciplined use: a drawn card that is not in the deck
GiveBackInputs ==
    {c \in (IF Len(hand) > 0 THEN {hand[1], hand[Len(hand)]} ELSE {}) :
        \A k \in 1..Len(heap[0]) : ~Card_eq(heap[0][k], c)}

\* indices given to deck[index]: around both ends of the list, and main's 17
IndexInputs(n) == {0 - n - 1, 0 - n, 0 - 1, 0, 1, 17, n - 1, n, n + 1}

\* what a function wrapped by fair_deck returns: the deck, its list of cards
\* (not a Deck), or None
GuardInputs == {"Deck", "list", "NoneType"}

\* the hand without its last occurrence of card (the hand itself if none)
RemoveLast(h, card) ==
    LET idx == {k \in 1..Len(h) : Card_eq(h[k], card)}
    IN IF idx = {} THEN h
       ELSE LET m == CHOOSE k \in idx : \A l \in idx : l <= k
            IN RemoveAt(h, m - 1)

\* numbers of cards the caller has drawn before the exploration starts
PreDraws == {0} \cup {n \in 0..Len(generate_full_deck) : Len(generate_full_deck) - n <= MaxLeft}

NoCmp == [eq |-> FALSE, lt |-> FALSE, gt |-> FALSE, lt_ba |-> FALSE, lt_bc |-> FALSE, lt_ac |-> FALSE, hash_eq |-> FALSE]

---------------------------------------------------------------------------
(* Initial states                                                          *)

\* the deck list, the caller's hand and the last return value after n more
\* calls of draw(); st is what they were before
RECURSIVE DrawN(_, _)
DrawN(st, n) ==
    IF n = 0 THEN st
    ELSE LET r == draw(st.cards)
         IN IF r.ret = NoneVal THEN [st EXCEPT !.ret = NoneVal]
            ELSE DrawN([cards |-> r.cards, hand |-> st.hand \o r.ret.val, ret |-> r.ret], n - 1)

\* deck = Deck(shuffle), followed by n calls of deck.draw()
Init ==
    \E shuffleFlag \in BOOLEAN, seed \in Seeds, n \in PreDraws :
        LET d == DrawN([cards |-> Deck(shuffleFlag, seed), hand |-> <<>>, ret |-> NoneVal], n)
        IN /\ heap = [id \in 0..NumCopies |-> IF id = 0 THEN d.cards ELSE <<>>]
           /\ ref = [k \in Slots |-> 0 - 1]
           /\ hand = d.hand
           /\ op = IF n = 0 THEN "Deck" ELSE "draw"
           /\ arg = IF n = 0 /\ shuffleFlag THEN 1 ELSE 0
           /\ argCard = <<>>
           /\ ret = d.ret
           /\ err = NoError
           /\ steps = 0
           /\ cmpIn = <<>>
           /\ cmpOut = NoCmp

---------------------------------------------------------------------------
(* Operations on the deck                                                  *)

Shuffle(seed) ==
    /\ steps < MaxSteps
    /\ heap' = [heap EXCEPT ![0] = shuffle(heap[0], seed)]
    /\ op' = "shuffle"
    /\ arg' = seed
    /\ argCard' = <<>>
    /\ ret' = NoneVal
    /\ err' = NoError
    /\ steps' = steps + 1
    /\ UNCHANGED <<ref, hand, cmpIn, cmpOut>>

Draw ==
    /\ steps < MaxSteps
    /\ LET r == draw(heap[0])
       IN /\ heap' = [heap EXCEPT ![0] = r.cards]
          /\ hand' = hand \o r.ret.val
          /\ ret' = r.ret
    /\ op' = "draw"
    /\ arg' = 0
    /\ argCard' = <<>>
    /\ err' = NoError
    /\ steps' = steps + 1
    /\ UNCHANGED <<ref, cmpIn, cmpOut>>

AddCard(card) ==
    /\ steps < MaxSteps
    /\ heap' = [heap EXCEPT ![0] = add_card(heap[0], card)]
    /\ hand' = RemoveLast(hand, card)
    /\ op' = "add_card"
    /\ arg' = 0
    /\ argCard' = <<card>>
    /\ ret' = NoneVal
    /\ err' = NoError
    /\ steps' = steps + 1
    /\ UNCHANGED <<ref, cmpIn, cmpOut>>

Max ==
    /\ op' = "max"
    /\ arg' = 0
    /\ argCard' = <<>>
    /\ ret' = Deck_max(heap[0])
    /\ err' = NoError
    /\ UNCHANGED <<heap, ref, hand, steps, cmpIn, cmpOut>>

Min ==
    /\ op' = "min"
    /\ arg' = 0
    /\ argCard' = <<>>
    /\ ret' = Deck_min(heap[0])
    /\ err' = NoError
    /\ UNCHANGED <<heap, ref, hand, steps, cmpIn, cmpOut>>

GetItem(index) ==
    /\ LET r == getitem(heap[0], index)
       IN ret' = r.ret /\ err' = r.err
    /\ op' = "getitem"
    /\ arg' = index
    /\ argCard' = <<>>
    /\ UNCHANGED <<heap, ref, hand, steps, cmpIn, cmpOut>>

\* the value a wrapped function of the given kind returns
Produced(kind) ==
    CASE kind = "Deck" -> DeckVal(heap[0])
      [] kind = "list" -> ListVal(heap[0])
      [] kind = "NoneType" -> NoneVal

\* a call of a function wrapped by fair_deck
Guard(kind) ==
    /\ LET r == fair_deck(Produced(kind))
       IN ret' = r.ret /\ err' = r.err
    /\ op' = "fair_deck"
    /\ arg' = IF kind = "Deck" THEN 1 ELSE IF kind = "list" THEN 2 ELSE 0
    /\ argCard' = <<>>
    /\ UNCHANGED <<heap, ref, hand, steps, cmpIn, cmpOut>>

Next ==
    \/ \E seed \in Seeds : Shuffle(seed)
    \/ Draw
    \/ \E card \in AddInputs : AddCard(card)
    \/ Max
    \/ Min
    \/ \E index \in IndexInputs(Len(heap[0])) : GetItem(index)
    \/ \E kind \in GuardInputs : Guard(kind)

Spec == Init /\ [][Next]_vars

---------------------------------------------------------------------------
(* The caller's copies of the deck                                         *)

\* what a caller can do to a list it holds
ListEdits == {"append", "pop", "reverse"}

ListEdit(x, how) ==
    CASE how = "append" -> Append(x, Card(SPADES, ACE))
      [] how = "pop" -> SubSeq(x, 1, Len(x) - 1)
      [] how = "reverse" -> [k \in 1..Len(x) |-> x[Len(x) + 1 - k]]

\* copy = deck.cards, assigned to the caller's variable `slot`
Cards(slot) ==
    /\ steps < MaxSteps
    /\ LET r == cards(heap, slot)
       IN /\ heap' = r.heap
          /\ ref' = [ref EXCEPT ![slot] = r.id]
          /\ ret' = ListVal(r.heap[r.id])
    /\ op' = "cards"
    /\ arg' = slot
    /\ argCard' = <<>>
    /\ err' = NoError
    /\ steps' = steps + 1
    /\ UNCHANGED <<hand, cmpIn, cmpOut>>

\* the caller edits, in place, the list its variable `slot` refers to
CopyEdit(slot, how) ==
    /\ steps < MaxSteps
    /\ ref[slot] >= 0
    /\ how = "pop" => Len(heap[ref[slot]]) > 0
    /\ heap' = [heap EXCEPT ![ref[slot]] = ListEdit(@, how)]
    /\ op' = "edit"
    /\ arg' = slot
    /\ argCard' = <<>>
    /\ ret' = NoneVal
    /\ err' = NoError
    /\ steps' = steps + 1
    /\ UNCHANGED <<ref, hand, cmpIn, cmpOut>>

NextCopy ==
    \/ \E slot \in Slots : Cards(slot)
    \/ \E slot \in Slots, how \in ListEdits : CopyEdit(slot, how)
    \/ \E seed \in Seeds : Shuffle(seed)
    \/ Draw
    \/ \E card \in AddInputs : AddCard(card)

SpecCopy == Init /\ [][NextCopy]_vars

---------------------------------------------------------------------------
(* Disciplined use: the caller only gives back cards it has drawn          *)

NextFair ==
    \/ \E seed \in Seeds : Shuffle(seed)
    \/ Draw
    \/ \E card \in GiveBackInputs : AddCard(card)
    \/ Guard("Deck")

SpecFair == Init /\ [][NextFair]_vars

---------------------------------------------------------------------------
(* Comparing cards                                                         *)

\* three cards a, b, c built by the caller, beside a fresh unshuffled deck
InitCmp ==
    /\ heap = [id \in 0..NumCopies |-> IF id = 0 THEN Deck(FALSE, 0) ELSE <<>>]
    /\ ref = [k \in Slots |-> 0 - 1]
    /\ hand = <<>>
    /\ op = "Deck"
    /\ arg = 0
    /\ argCard = <<>>
    /\ ret = NoneVal
    /\ err = NoError
    /\ steps = 0
    /\ cmpIn \in AllCards \X AllCards \X AllCards
    /\ cmpOut = NoCmp

\* a == b, a < b, a > b, b < a, b < c, a < c and hash(a) == hash(b)
Compare ==
    /\ op = "Deck"
    /\ LET a == cmpIn[1]
           b == cmpIn[2]
           c == cmpIn[3]
       IN cmpOut' = [eq |-> Card_eq(a, b), lt |-> Card_lt(a, b), gt |-> Card_gt(a, b),
                     lt_ba |-> Card_lt(b, a), lt_bc |-> Card_lt(b, c), lt_ac |-> Card_lt(a, c),
                     hash_eq |-> Card_hash(a) = Card_hash(b)]
    /\ op' = "compare"
    /\ UNCHANGED <<heap, ref, hand, arg, argCard, ret, err, steps, cmpIn>>

NextCmp == Compare

SpecCmp == InitCmp /\ [][NextCmp]_vars

---------------------------------------------------------------------------
(* Vocabulary of the properties, stated on suits and ranks directly        *)

\* number of positions of x that hold card c
Count(x, c) == Cardinality({k \in 1..Len(x) : x[k].suit = c.suit /\ x[k].rank = c.rank})

\* x holds each of the 52 (suit, rank) combinations exactly once
IsFullDeck(x) ==
    /\ Len(x) = 52
    /\ \A s \in 1..4, r \in 2..14 : Count(x, [suit |-> s, rank |-> r]) = 1

\* positions (1-based) of x that hold a card equal to one at an earlier position
DupPositions(x) ==
    {j \in 1..Len(x) : \E i \in 1..(j - 1) : x[i].suit = x[j].suit /\ x[i].rank = x[j].rank}

\* a precedes b in the rank-then-suit order
Below(a, b) == a.rank < b.rank \/ (a.rank = b.rank /\ a.suit < b.suit)

\* the list a caller's variable `slot` refers to, given the heap h and the
\* references rf (<<>> if it refers to none)
ViewIn(h, rf, slot) == IF rf[slot] >= 0 THEN h[rf[slot]] ELSE <<>>

View(slot) == ViewIn(heap, ref, slot)

ViewAfter(slot) == ViewIn(heap', ref', slot)

---------------------------------------------------------------------------
(* Properties                                                              *)

\* C1: Deck(shuffle=False) holds exactly 52 cards, one per (suit, rank)
\* combination and none repeated, in canonical order: the card at 0-based
\* position 13*(s-1) + (r-2) has suit ordinal s and rank ordinal r, and the
\* front card is Two of Spades.
C1_CanonicalDeck ==
    (op = "Deck" /\ arg = 0) =>
        LET x == heap[0]
        IN /\ Len(x) = 52
           /\ \A s \in 1..4, r \in 2..14 :
                  x[13 * (s - 1) + (r - 2) + 1] = [suit |-> s, rank |-> r]
           /\ \A i, j \in 1..Len(x) : i # j => x[i] # x[j]
           /\ IsFullDeck(x)
           /\ x[1] = [suit |-> 1, rank |-> 2]

\* a fresh unshuffled deck whose last card is Ace of Clubs
C1_Witness ==
    /\ op = "Deck" /\ arg = 0 /\ steps = 0
    /\ Len(heap[0]) = 52 /\ heap[0][52] = [suit |-> 4, rank |-> 14]

\* C2: draw() on a deck of length n >= 1 returns the card that was at
\* position 0, leaves length n-1 and moves old position i+1 to position i;
\* draw() on an empty deck returns None, raises nothing and leaves the deck
\* empty.
C2_Draw ==
    [][op' = "draw" =>
        LET x == heap[0]
            y == heap'[0]
        IN /\ err' = NoError
           /\ IF Len(x) >= 1
              THEN /\ ret' = [type |-> "Card", val |-> <<x[1]>>]
                   /\ Len(y) = Len(x) - 1
                   /\ \A i \in 1..Len(y) : y[i] = x[i + 1]
              ELSE /\ ret' = [type |-> "NoneType", val |-> <<>>]
                   /\ y = <<>>]_vars

\* all 52 cards were drawn, and one more draw() returned None
C2_Witness ==
    /\ op = "draw" /\ steps > 0 /\ ret = NoneVal
    /\ Len(hand) = 52 /\ heap[0] = <<>>

\* C3: add_card(c) on a deck of length n always succeeds (no duplicate
\* check, no size cap), leaves length n+1 with c at position n and leaves
\* positions 0..n-1 unchanged.
C3_AddCard ==
    [][op' = "add_card" =>
        LET x == heap[0]
            y == heap'[0]
        IN /\ err' = NoError
           /\ Len(y) = Len(x) + 1
           /\ <<y[Len(x) + 1]>> = argCard'
           /\ \A i \in 1..Len(x) : y[i] = x[i]]_vars

\* a 53rd card was added although an equal card was already in the deck
C3_Witness ==
    /\ op = "add_card" /\ Len(heap[0]) = 53
    /\ argCard = <<heap[0][53]>>
    /\ \E k \in 1..52 : heap[0][k] = heap[0][53]

\* C4: a function wrapped by fair_deck raises DeckCheatingError iff its
\* result is a Deck that holds two equal cards, and the error names the
\* card at the earliest position that equals a card at an earlier position;
\* otherwise the result is returned unchanged; the deck is not modified.
C4_FairDeck ==
    [][op' = "fair_deck" =>
        LET x == heap[0]
            result == CASE arg' = 1 -> [type |-> "Deck", val |-> x]
                        [] arg' = 2 -> [type |-> "list", val |-> x]
                        [] OTHER -> [type |-> "NoneType", val |-> <<>>]
            dups == DupPositions(x)
            cheat == result.type = "Deck" /\ dups # {}
        IN /\ heap' = heap
           /\ (err'.type = "DeckCheatingError") <=> cheat
           /\ cheat =>
                LET first == CHOOSE j \in dups : \A l \in dups : j <= l
                IN /\ err'.msg = "Cheating detected: duplicate card " \o get_display_name(x[first])
                   /\ ret' = NoReturn
           /\ ~cheat => (err' = NoError /\ ret' = result)]_vars

\* the guard raised on a deck with two duplicated cards
C4_Witness ==
    /\ op = "fair_deck" /\ arg = 1
    /\ err.type = "DeckCheatingError"
    /\ Cardinality(DupPositions(heap[0])) >= 2

\* C5: for all cards a, b exactly one of a<b, a==b, a>b holds, where a==b
\* iff same suit and rank and a<b iff a's rank is lower, or the ranks are
\* equal and a's suit is lower; a>b iff b<a; and < is transitive.
C5_TotalOrder ==
    op = "compare" =>
        LET a == cmpIn[1]
            b == cmpIn[2]
            o == cmpOut
        IN /\ (o.lt /\ ~o.eq /\ ~o.gt) \/ (~o.lt /\ o.eq /\ ~o.gt) \/ (~o.lt /\ ~o.eq /\ o.gt)
           /\ o.eq <=> (a.suit = b.suit /\ a.rank = b.rank)
           /\ o.lt <=> Below(a, b)
           /\ o.gt <=> o.lt_ba
           /\ (o.lt /\ o.lt_bc) => o.lt_ac

\* a < b decided by the suits, b < c and a < c
C5_Witness ==
    /\ op = "compare"
    /\ cmpIn[1].rank = cmpIn[2].rank
    /\ cmpOut.lt /\ cmpOut.lt_bc /\ cmpOut.lt_ac

\* what max() (greatest = TRUE) or min() must return on list x
ExtremeOK(x, r, greatest) ==
    IF Len(x) = 0 THEN r = [type |-> "NoneType", val |-> <<>>]
    ELSE /\ r.type = "Card"
         /\ Len(r.val) = 1
         /\ \E k \in 1..Len(x) : x[k] = r.val[1]
         /\ \A k \in 1..Len(x) :
                IF greatest THEN ~Below(r.val[1], x[k]) ELSE ~Below(x[k], r.val[1])

\* C6: max() returns a card of the deck that no card of the deck is greater
\* than, min() one that no card is less than; both return None on an empty
\* deck; neither changes the deck; on a full 52-card deck max() is Ace of
\* Clubs and min() is Two of Spades.
C6_MaxMin ==
    [][/\ op' = "max" =>
            /\ heap' = heap /\ err' = NoError
            /\ ExtremeOK(heap[0], ret', TRUE)
            /\ IsFullDeck(heap[0]) => ret'.val = <<[suit |-> 4, rank |-> 14]>>
       /\ op' = "min" =>
            /\ heap' = heap /\ err' = NoError
            /\ ExtremeOK(heap[0], ret', FALSE)
            /\ IsFullDeck(heap[0]) => ret'.val = <<[suit |-> 1, rank |-> 2]>>]_vars

\* max() answered Ace of Clubs on a full deck that is not in canonical order
C6_Witness ==
    /\ op = "max" /\ IsFullDeck(heap[0])
    /\ heap[0][52] # [suit |-> 4, rank |-> 14]
    /\ ret.val = <<[suit |-> 4, rank |-> 14]>>

\* max() and min() answered None on an empty deck
C6_WitnessEmpty == op \in {"max", "min"} /\ heap[0] = <<>> /\ ret = NoneVal

\* C7: shuffle() replaces the deck's sequence by a permutation of itself
\* (same multiset of cards, same length); so Deck(shuffle=True) holds each
\* of the 52 (suit, rank) combinations exactly once.
C7_Shuffle ==
    /\ []((op = "Deck" /\ arg = 1) => IsFullDeck(heap[0]))
    /\ [][op' = "shuffle" =>
            /\ Len(heap'[0]) = Len(heap[0])
            /\ \A c \in AllCards : Count(heap'[0], c) = Count(heap[0], c)
            /\ err' = NoError]_vars

\* a deck of at least 52 cards was shuffled out of canonical order
C7_Witness ==
    /\ op = "shuffle" /\ Len(heap[0]) >= 52
    /\ SubSeq(heap[0], 1, 52) # generate_full_deck

\* C8: cards() returns a copy of the deck's current sequence: consecutive
\* calls return lists equal to each other and to the deck; editing a copy
\* changes neither the deck nor another copy; draw/add_card/shuffle on the
\* deck does not change a copy obtained earlier.
C8_CardsCopy ==
    [][/\ op' = "cards" =>
            /\ heap'[0] = heap[0]
            /\ ret' = [type |-> "list", val |-> heap[0]]
            /\ ref'[arg'] >= 0 /\ ViewAfter(arg') = heap[0]
            /\ \A j \in Slots \ {arg'} : ViewAfter(j) = View(j)
            /\ (op = "cards" /\ arg # arg') => ViewAfter(arg) = ViewAfter(arg')
       /\ op' = "edit" =>
            /\ heap'[0] = heap[0]
            /\ \A j \in Slots \ {arg'} : ViewAfter(j) = View(j)
       /\ op' \in {"draw", "add_card", "shuffle"} =>
            \A j \in Slots : ViewAfter(j) = View(j)]_vars

\* two copies were taken and one of them edited: it differs from the deck,
\* the other still equals the deck
C8_Witness ==
    /\ op = "edit" /\ Len(heap[0]) > 0
    /\ View(arg) # heap[0]
    /\ \E j \in Slots \ {arg} : ref[j] >= 0 /\ View(j) = heap[0]

\* C9 as stated: deck[i] returns the i-th card when 0 <= i < n and fails with
\* an index-out-of-bounds error for every index outside 0..n-1, negative
\* indices included; the deck is unchanged.
C9_Original ==
    [][op' = "getitem" =>
        LET x == heap[0]
            i == arg'
        IN /\ heap' = heap
           /\ (0 <= i /\ i < Len(x)) => (err' = NoError /\ ret'.val = <<x[i + 1]>>)
           /\ (i < 0 \/ i >= Len(x)) => err'.type = "IndexError"]_vars

\* C9 as amended: deck[i] on a deck of length n returns the i-th card when
\* 0 <= i < n, the card at position n+i when -n <= i < 0, and fails with
\* IndexError when i >= n or i < -n; the deck is unchanged.
C9_GetItem ==
    [][op' = "getitem" =>
        LET x == heap[0]
            n == Len(heap[0])
            i == arg'
        IN /\ heap' = heap
           /\ (0 <= i /\ i < n) => (err' = NoError /\ ret' = [type |-> "Card", val |-> <<x[i + 1]>>])
           /\ (0 - n <= i /\ i < 0) => (err' = NoError /\ ret' = [type |-> "Card", val |-> <<x[n + i + 1]>>])
           /\ (i >= n \/ i < 0 - n) => (err'.type = "IndexError" /\ ret' = NoReturn)]_vars

\* deck[-1] returned the last card of a deck of at least two cards
C9_Witness ==
    /\ op = "getitem" /\ arg = 0 - 1 /\ Len(heap[0]) >= 2
    /\ ret.val = <<heap[0][Len(heap[0])]>>

\* C10: when every add_card gives back a card that was drawn and is not in
\* the deck, the deck never holds two equal cards, its length stays within
\* 0..52, the deck and the caller's hand together are exactly the 52
\* combinations, and fair_deck on that deck never raises.
C10_Disciplined ==
    /\ DupPositions(heap[0]) = {}
    /\ Len(heap[0]) <= 52
    /\ IsFullDeck(heap[0] \o hand)
    /\ op = "fair_deck" => err = NoError

\* a card was drawn from an unshuffled deck and given back, and the guard
\* passed the deck through
C10_Witness ==
    /\ op = "fair_deck" /\ err = NoError /\ ret.type = "Deck"
    /\ steps = 2 /\ hand = <<>>
    /\ Len(heap[0]) = 52
    /\ heap[0][1] = [suit |-> 1, rank |-> 3]
    /\ heap[0][52] = [suit |-> 1, rank |-> 2]

====
